---- MODULE Spec2Model ----
\* Model of gsl::unique_error<std::error_condition> (include/unique_error.h).
\* A small pool of storage slots holds unique_error instances; every public
\* member function is one action.  The record `last` remembers the call that
\* was made most recently together with the state it was made in.
\* Spec is the program; SpecTrack is the same program with the history of one
\* instance written down in noted and track; SpecTraits applies the
\* error_traits the header defines to values of their types.
EXTENDS Integers, FiniteSets, Sequences, TLC

\* ---------------------------------------------------------------- bounds
NumInst == 2          \* storage slots that can hold an instance
MaxErr == 1           \* error values are 0..MaxErr
MaxRaw == 7           \* SpecTraits: the values given to error_traits are 0..MaxRaw

Inst == 1..NumInst
Error == 0..MaxErr

\* the slot whose history noted and track follow: the first one
G == CHOOSE i \in Inst : \A j \in Inst : i <= j

\* ------------------------------------------------- details::Disposition
Invalid == 0
Initiated == 1
Defaulted == 2
Released == 3
Checked == 4
Unchecked == 5
End == 6

\* ------------------------------------ error_traits<std::error_condition>
\* std::error_condition{} has value() == 0
traits_initiate == 0

\* ok(ge) returns !ge, and a std::error_condition is true when value() != 0
traits_ok(ge) == ~(ge # 0)

\* ------------------------------------------- error_traits, type by type
\* A value of an error type is [value, category]: a std::error_condition or
\* std::error_code carries both, and a scalar T (bool, a floating type, a
\* pointer: the integral types are disabled) carries a value only.
NoCategory == "none"
Category == {"generic", "system", "other"}
Traits == {"primary", "error_condition", "error_code"}

\* error_traits<T>::initiate(): T{}, which is zero for a scalar T
primary_initiate == [value |-> 0, category |-> NoCategory]

\* error_traits<T>::ok(e): !!e, and a scalar converts to true when it is not zero
primary_ok(e) == ~~(e.value # 0)

\* error_traits<std::error_condition>::initiate(): value 0, generic_category()
error_condition_initiate == [value |-> 0, category |-> "generic"]

\* error_traits<std::error_condition>::ok(ge): !ge
error_condition_ok(ge) == ~(ge.value # 0)

\* error_traits<std::error_code>::initiate(): value 0, system_category()
error_code_initiate == [value |-> 0, category |-> "system"]

\* error_traits<std::error_code>::ok(se): !se
error_code_ok(se) == ~(se.value # 0)

\* error_traits<E>::initiate() for the E that kind names
initiate_of(kind) ==
    CASE kind = "primary" -> primary_initiate
      [] kind = "error_condition" -> error_condition_initiate
      [] kind = "error_code" -> error_code_initiate

\* error_traits<E>::ok(e) for the E that kind names
ok_of(kind, e) ==
    CASE kind = "primary" -> primary_ok(e)
      [] kind = "error_condition" -> error_condition_ok(e)
      [] kind = "error_code" -> error_code_ok(e)

\* the values of the type that kind names
values_of(kind) ==
    IF kind = "primary"
    THEN [value : 0..MaxRaw, category : {NoCategory}]
    ELSE [value : 0..MaxRaw, category : Category]

\* fail_fast_assert(cond, msg): the fatal path is taken when cond is false.
\* The model follows the GSL_THROWS_FOR_TESTING build, in which fail_fast is
\* thrown to the caller; the runs of the terminating build are the runs of
\* this one cut at the first fault.
fail_fast_assert(cond) == ~cond

\* ----------------------------------------------- unique_error, as values
\* An instance is a record [alive, value, disposition].  Member functions
\* are operators from the instance to the instance they leave behind, with
\* `fault` telling whether fail_fast_assert fired (nothing is written then).

\* storage that holds no instance
NoInstance == [alive |-> FALSE, value |-> traits_initiate, disposition |-> Defaulted]

\* unique_error()
ctor_default == [alive |-> TRUE, value |-> traits_initiate, disposition |-> Defaulted]

ctor_raw_unchecked(other) == [alive |-> TRUE, value |-> other, disposition |-> Unchecked]

\* unique_error(const type&), unique_error(type&&)
ctor_raw(other) == [alive |-> TRUE, value |-> other, disposition |-> Initiated]

reset_raw_writes_first(u, raw) ==
    IF fail_fast_assert(u.disposition # Unchecked)
    THEN [obj |-> [u EXCEPT !.value = raw], fault |-> TRUE]
    ELSE [obj |-> [u EXCEPT !.value = raw, !.disposition = Unchecked], fault |-> FALSE]

reset_raw_unguarded(u, raw) ==
    [obj |-> [u EXCEPT !.value = raw, !.disposition = Unchecked], fault |-> FALSE]

\* this_type& reset(type raw)
reset_raw(u, raw) ==
    IF fail_fast_assert(u.disposition # Unchecked)
    THEN [obj |-> u, fault |-> TRUE]
    ELSE [obj |-> [u EXCEPT !.value = raw, !.disposition = Unchecked], fault |-> FALSE]

reset_keeps_value(u) ==
    IF fail_fast_assert(u.disposition # Unchecked)
    THEN [obj |-> u, fault |-> TRUE]
    ELSE [obj |-> [u EXCEPT !.disposition = Defaulted], fault |-> FALSE]

reset_stays_unchecked(u) == reset_raw(u, traits_initiate)

\* this_type& reset()
reset(u) ==
    LET r == reset_raw(u, traits_initiate)
    IN  IF r.fault
        THEN r
        ELSE [obj |-> [r.obj EXCEPT !.disposition = Defaulted], fault |-> FALSE]

dtor_no_reset(u) == [obj |-> [u EXCEPT !.alive = FALSE], fault |-> FALSE]

\* ~unique_error()
dtor(u) ==
    LET r == reset(u)
    IN  IF r.fault
        THEN r
        ELSE [obj |-> [r.obj EXCEPT !.alive = FALSE], fault |-> FALSE]

release_stays_released(u) ==
    LET r == reset([u EXCEPT !.disposition = Released])
    IN  [obj |-> [r.obj EXCEPT !.disposition = Released], fault |-> r.fault,
         result |-> u.value]

release_keeps_disposition(u) ==
    LET r == reset(u)
    IN  [obj |-> r.obj, fault |-> r.fault, result |-> u.value]

release_returns_cleared(u) ==
    LET r == reset([u EXCEPT !.disposition = Released])
    IN  [obj |-> r.obj, fault |-> r.fault, result |-> r.obj.value]

\* type release()
release(u) ==
    LET u1 == [u EXCEPT !.disposition = Released]
        result == u1.value
        r == reset(u1)
    IN  [obj |-> r.obj, fault |-> r.fault, result |-> result]

\* type get() const
get(u) == u.value

\* bool try_ok() const
try_ok(u) == traits_ok(u.value)

ok_marks_unchecked(u) ==
    [obj |-> [u EXCEPT !.disposition = Unchecked], result |-> try_ok(u)]

ok_no_mark(u) == [obj |-> u, result |-> try_ok(u)]

\* bool ok() const
ok(u) ==
    LET u1 == [u EXCEPT !.disposition = Checked]
    IN  [obj |-> u1, result |-> try_ok(u1)]

operator_bool_not_negated(u) == ok(u)

\* explicit operator bool() const
operator_bool(u) ==
    LET r == ok(u)
    IN  [obj |-> r.obj, result |-> ~r.result]

ctor_move_no_release(other) ==
    [obj |-> [alive |-> TRUE, value |-> other.value, disposition |-> Unchecked],
     src |-> other, fault |-> FALSE]

\* unique_error(unique_error&& other)
ctor_move(other) ==
    LET rel == release(other)
    IN  [obj |-> [alive |-> TRUE, value |-> rel.result, disposition |-> Unchecked],
         src |-> rel.obj, fault |-> rel.fault]

\* unique_error(const unique_error& other)
ctor_copy(other) ==
    [alive |-> TRUE, value |-> other.value, disposition |-> Unchecked]

\* ----------------------------------------- operations on two instances
\* The heap h maps every slot to its instance; self and other may be the
\* same slot, so the writes are applied in the order the code makes them.

swap_values_only(h, self, other) ==
    [h EXCEPT ![self].value = h[other].value,
              ![other].value = h[self].value]

\* void swap(unique_error& other), and the free function swap(lhs, rhs)
swap(h, self, other) ==
    [h EXCEPT ![self].value = h[other].value,
              ![self].disposition = h[other].disposition,
              ![other].value = h[self].value,
              ![other].disposition = h[self].disposition]

assign_move_release_after(h, self, other) ==
    LET h1 == [h EXCEPT ![self].value = h[other].value,
                        ![self].disposition = Unchecked]
        rel == release(h1[other])
    IN  [heap |-> [h1 EXCEPT ![other] = rel.obj], fault |-> rel.fault]

assign_move_via_reset(h, self, other) ==
    LET rel == release(h[other])
        h1 == [h EXCEPT ![other] = rel.obj]
        r == reset_raw(h1[self], rel.result)
    IN  [heap |-> [h1 EXCEPT ![self] = r.obj], fault |-> rel.fault \/ r.fault]

\* unique_error& operator=(unique_error&& other)
assign_move(h, self, other) ==
    LET rel == release(h[other])
        h1 == [h EXCEPT ![other] = rel.obj]
    IN  [heap |-> [h1 EXCEPT ![self].value = rel.result,
                             ![self].disposition = Unchecked],
         fault |-> rel.fault]

assign_copy_inherits(h, self, other) ==
    [h EXCEPT ![self].value = h[other].value,
              ![self].disposition = h[other].disposition]

\* unique_error& operator=(const unique_error& other)
assign_copy(h, self, other) ==
    [h EXCEPT ![self].value = h[other].value,
              ![self].disposition = Unchecked]

\* bool operator<(const unique_error&, const unique_error&)
operator_less(lhs, rhs) == lhs.value < rhs.value

operator_eq_memberwise(lhs, rhs) ==
    lhs.value = rhs.value /\ lhs.disposition = rhs.disposition

\* bool operator==(const unique_error&, const unique_error&)
operator_eq(lhs, rhs) == lhs.value = rhs.value

\* bool operator!=(const unique_error&, const unique_error&)
operator_ne(lhs, rhs) == ~operator_eq(lhs, rhs)

\* ------------------------------------------------------------------ state
VARIABLES
    inst,        \* slot -> instance record
    terminated,  \* the process has been ended by a fail_fast in a destructor
    last,        \* the most recent call and the state it was made in
    following,   \* whether the history of slot G is written down (SpecTrack)
    noted,       \* what the calls made on slot G so far say about its next reset
    track,       \* as noted, with swap taken into account
    probe        \* SpecTraits: the error value at hand and what ok() said of it

vars == <<inst, terminated, last, following, noted, track, probe>>

\* values of noted and track
Owed == "owed"       \* written, and neither checked nor released since
Clear == "clear"     \* checked or released, and not written since
Silent == "silent"   \* neither

NoCall ==
    [op |-> "none", self |-> G, other |-> G, raw |-> traits_initiate,
     pre |-> [i \in Inst |-> NoInstance], fault |-> FALSE,
     retVal |-> traits_initiate, retBool |-> FALSE,
     noted |-> Silent, track |-> Silent]

Call(op, self, other, raw, fault, retVal, retBool) ==
    [op |-> op, self |-> self, other |-> other, raw |-> raw,
     pre |-> inst, fault |-> fault, retVal |-> retVal, retBool |-> retBool,
     noted |-> noted, track |-> track]

Writes == {"reset_raw", "assign_copy", "assign_move", "ctor_copy", "ctor_move"}
Moves == {"assign_move", "ctor_move"}
Checks == {"ok", "operator_bool", "release"}
Resets == {"reset", "reset_raw"}

\* noted after the call c: a write into G makes the next reset owed, a check
\* or a release of G clears it; a completed reset(), a new lifetime, and a
\* move from G (which releases G without the caller calling release) leave
\* nothing said about the next reset
NotedAfter(c, old) ==
    IF c.fault THEN old
    ELSE IF c.op \in Writes /\ c.self = G THEN Owed
    ELSE IF c.op \in Moves /\ c.other = G THEN Silent
    ELSE IF c.op \in Checks /\ c.self = G THEN Clear
    ELSE IF c.op \in {"reset", "dtor", "ctor_default", "ctor_raw"} /\ c.self = G THEN Silent
    ELSE old

\* track after the call c: as noted, and a swap of G says nothing any more
TrackAfter(c, old) ==
    IF c.op = "swap" /\ G \in {c.self, c.other} THEN Silent
    ELSE NotedAfter(c, old)

NoProbe ==
    [kind |-> "none", e |-> primary_initiate, from |-> "none",
     tested |-> FALSE, result |-> FALSE]

Follow ==
    /\ following' = following
    /\ probe' = probe
    /\ noted' = IF following THEN NotedAfter(last', noted) ELSE noted
    /\ track' = IF following THEN TrackAfter(last', track) ELSE track

Start ==
    /\ inst = [i \in Inst |-> NoInstance]
    /\ terminated = FALSE
    /\ last = NoCall
    /\ noted = Silent
    /\ track = Silent
    /\ probe = NoProbe

Init == Start /\ following = FALSE

InitTrack == Start /\ following = TRUE

\* ---------------------------------------------------------------- actions
\* unique_error<E> g;
DefaultConstruct(self) ==
    /\ ~terminated /\ ~inst[self].alive
    /\ inst' = [inst EXCEPT ![self] = ctor_default]
    /\ last' = Call("ctor_default", self, self, traits_initiate, FALSE, traits_initiate, FALSE)
    /\ Follow
    /\ UNCHANGED terminated

\* unique_error<E> g{raw};
RawConstruct(self, raw) ==
    /\ ~terminated /\ ~inst[self].alive
    /\ inst' = [inst EXCEPT ![self] = ctor_raw(raw)]
    /\ last' = Call("ctor_raw", self, self, raw, FALSE, traits_initiate, FALSE)
    /\ Follow
    /\ UNCHANGED terminated

\* unique_error<E> g{std::move(other)};
MoveConstruct(self, other) ==
    /\ ~terminated /\ ~inst[self].alive /\ inst[other].alive
    /\ LET r == ctor_move(inst[other])
       IN  /\ inst' = IF r.fault THEN inst
                      ELSE [inst EXCEPT ![other] = r.src, ![self] = r.obj]
           /\ last' = Call("ctor_move", self, other, traits_initiate, r.fault, traits_initiate, FALSE)
    /\ Follow
    /\ UNCHANGED terminated

\* unique_error<E> g{other};
CopyConstruct(self, other) ==
    /\ ~terminated /\ ~inst[self].alive /\ inst[other].alive
    /\ inst' = [inst EXCEPT ![self] = ctor_copy(inst[other])]
    /\ last' = Call("ctor_copy", self, other, traits_initiate, FALSE, traits_initiate, FALSE)
    /\ Follow
    /\ UNCHANGED terminated

\* g.swap(other); swap(g, other);
Swap(self, other) ==
    /\ ~terminated /\ inst[self].alive /\ inst[other].alive
    /\ inst' = swap(inst, self, other)
    /\ last' = Call("swap", self, other, traits_initiate, FALSE, traits_initiate, FALSE)
    /\ Follow
    /\ UNCHANGED terminated

\* g = std::move(other);
MoveAssign(self, other) ==
    /\ ~terminated /\ inst[self].alive /\ inst[other].alive
    /\ LET r == assign_move(inst, self, other)
       IN  /\ inst' = IF r.fault THEN inst ELSE r.heap
           /\ last' = Call("assign_move", self, other, traits_initiate, r.fault, traits_initiate, FALSE)
    /\ Follow
    /\ UNCHANGED terminated

\* g = other;
CopyAssign(self, other) ==
    /\ ~terminated /\ inst[self].alive /\ inst[other].alive
    /\ inst' = assign_copy(inst, self, other)
    /\ last' = Call("assign_copy", self, other, traits_initiate, FALSE, traits_initiate, FALSE)
    /\ Follow
    /\ UNCHANGED terminated

\* if (g) ...
OperatorBool(self) ==
    /\ ~terminated /\ inst[self].alive
    /\ LET r == operator_bool(inst[self])
       IN  /\ inst' = [inst EXCEPT ![self] = r.obj]
           /\ last' = Call("operator_bool", self, self, traits_initiate, FALSE, traits_initiate, r.result)
    /\ Follow
    /\ UNCHANGED terminated

\* g.ok();
Ok(self) ==
    /\ ~terminated /\ inst[self].alive
    /\ LET r == ok(inst[self])
       IN  /\ inst' = [inst EXCEPT ![self] = r.obj]
           /\ last' = Call("ok", self, self, traits_initiate, FALSE, traits_initiate, r.result)
    /\ Follow
    /\ UNCHANGED terminated

\* g.reset();
Reset(self) ==
    /\ ~terminated /\ inst[self].alive
    /\ LET r == reset(inst[self])
       IN  /\ inst' = [inst EXCEPT ![self] = r.obj]
           /\ last' = Call("reset", self, self, traits_initiate, r.fault, traits_initiate, FALSE)
    /\ Follow
    /\ UNCHANGED terminated

\* g.reset(raw);
ResetRaw(self, raw) ==
    /\ ~terminated /\ inst[self].alive
    /\ LET r == reset_raw(inst[self], raw)
       IN  /\ inst' = [inst EXCEPT ![self] = r.obj]
           /\ last' = Call("reset_raw", self, self, raw, r.fault, traits_initiate, FALSE)
    /\ Follow
    /\ UNCHANGED terminated

\* raw = g.release();
Release(self) ==
    /\ ~terminated /\ inst[self].alive
    /\ LET r == release(inst[self])
       IN  /\ inst' = [inst EXCEPT ![self] = r.obj]
           /\ last' = Call("release", self, self, traits_initiate, r.fault, r.result, FALSE)
    /\ Follow
    /\ UNCHANGED terminated

Get_marks_checked(self) ==
    /\ ~terminated /\ inst[self].alive
    /\ inst' = [inst EXCEPT ![self] = ok(inst[self]).obj]
    /\ last' = Call("get", self, self, traits_initiate, FALSE, get(inst[self]), FALSE)
    /\ Follow
    /\ UNCHANGED terminated

\* raw = g.get();
Get(self) ==
    /\ ~terminated /\ inst[self].alive
    /\ last' = Call("get", self, self, traits_initiate, FALSE, get(inst[self]), FALSE)
    /\ Follow
    /\ UNCHANGED <<inst, terminated>>

\* b = g.try_ok();
TryOk(self) ==
    /\ ~terminated /\ inst[self].alive
    /\ last' = Call("try_ok", self, self, traits_initiate, FALSE, traits_initiate, try_ok(inst[self]))
    /\ Follow
    /\ UNCHANGED <<inst, terminated>>

\* b = g < other;
Less(self, other) ==
    /\ ~terminated /\ inst[self].alive /\ inst[other].alive
    /\ last' = Call("operator_less", self, other, traits_initiate, FALSE, traits_initiate,
                    operator_less(inst[self], inst[other]))
    /\ Follow
    /\ UNCHANGED <<inst, terminated>>

\* b = g == other;
Equal(self, other) ==
    /\ ~terminated /\ inst[self].alive /\ inst[other].alive
    /\ last' = Call("operator_eq", self, other, traits_initiate, FALSE, traits_initiate,
                    operator_eq(inst[self], inst[other]))
    /\ Follow
    /\ UNCHANGED <<inst, terminated>>

\* b = g != other;
NotEqual(self, other) ==
    /\ ~terminated /\ inst[self].alive /\ inst[other].alive
    /\ last' = Call("operator_ne", self, other, traits_initiate, FALSE, traits_initiate,
                    operator_ne(inst[self], inst[other]))
    /\ Follow
    /\ UNCHANGED <<inst, terminated>>

\* g goes out of scope.  A fail_fast leaving the destructor ends the process
\* (destructors are noexcept), so nothing runs after it.
Destroy(self) ==
    /\ ~terminated /\ inst[self].alive
    /\ LET r == dtor(inst[self])
       IN  /\ inst' = [inst EXCEPT ![self] = r.obj]
           /\ last' = Call("dtor", self, self, traits_initiate, r.fault, traits_initiate, FALSE)
           /\ terminated' = r.fault
    /\ Follow

Next ==
    \/ \E self \in Inst : DefaultConstruct(self)
    \/ \E self \in Inst, raw \in Error : RawConstruct(self, raw)
    \/ \E self \in Inst, other \in Inst : MoveConstruct(self, other)
    \/ \E self \in Inst, other \in Inst : CopyConstruct(self, other)
    \/ \E self \in Inst, other \in Inst : Swap(self, other)
    \/ \E self \in Inst, other \in Inst : MoveAssign(self, other)
    \/ \E self \in Inst, other \in Inst : CopyAssign(self, other)
    \/ \E self \in Inst : OperatorBool(self)
    \/ \E self \in Inst : Ok(self)
    \/ \E self \in Inst : Reset(self)
    \/ \E self \in Inst, raw \in Error : ResetRaw(self, raw)
    \/ \E self \in Inst : Release(self)
    \/ \E self \in Inst : Get(self)
    \/ \E self \in Inst : TryOk(self)
    \/ \E self \in Inst, other \in Inst : Less(self, other)
    \/ \E self \in Inst, other \in Inst : Equal(self, other)
    \/ \E self \in Inst, other \in Inst : NotEqual(self, other)
    \/ \E self \in Inst : Destroy(self)

Spec == Init /\ [][Next]_vars

SpecTrack == InitTrack /\ [][Next]_vars

\* ------------------------------------------------ error_traits on its own
\* e = error_traits<E>::initiate();
TraitsInitiate(kind) ==
    /\ probe' = [kind |-> kind, e |-> initiate_of(kind), from |-> "initiate",
                 tested |-> FALSE, result |-> FALSE]
    /\ UNCHANGED <<inst, terminated, last, following, noted, track>>

\* e = some value of E;
TraitsValue(kind, e) ==
    /\ probe' = [kind |-> kind, e |-> e, from |-> "value",
                 tested |-> FALSE, result |-> FALSE]
    /\ UNCHANGED <<inst, terminated, last, following, noted, track>>

\* b = error_traits<E>::ok(e);
TraitsOk ==
    /\ probe.kind \in Traits
    /\ probe' = [probe EXCEPT !.tested = TRUE, !.result = ok_of(probe.kind, probe.e)]
    /\ UNCHANGED <<inst, terminated, last, following, noted, track>>

NextTraits ==
    \/ \E kind \in Traits : TraitsInitiate(kind)
    \/ \E kind \in Traits : \E e \in values_of(kind) : TraitsValue(kind, e)
    \/ TraitsOk

SpecTraits == Init /\ [][NextTraits]_vars

TypeOK ==
    /\ \A i \in Inst : /\ inst[i].alive \in BOOLEAN
                       /\ inst[i].value \in Error
                       /\ inst[i].disposition \in Invalid..End
    /\ terminated \in BOOLEAN

\* ----------------------------------------------------------------- claims
\* what the most recent call was made on
Self == last.self
Other == last.other
PreSelf == last.pre[last.self]
PreOther == last.pre[last.other]

\* u can be reset(), reset(raw) for every raw, and destroyed without fault
Safe(u) ==
    /\ ~reset(u).fault
    /\ \A raw \in Error : ~reset_raw(u, raw).fault
    /\ ~dtor(u).fault

\* every one of reset(), reset(raw) and destruction of u takes the fatal path
Unsafe(u) ==
    /\ reset(u).fault
    /\ \A raw \in Error : reset_raw(u, raw).fault
    /\ dtor(u).fault

\* C1: a call of reset() or reset(raw) takes the fatal path if and only if the
\* instance was Unchecked when the call was made; from Initiated, Defaulted
\* and Checked both forms complete.
C1_ResetFaultsIffUnchecked ==
    last.op \in Resets =>
        /\ last.fault <=> (PreSelf.disposition = Unchecked)
        /\ PreSelf.disposition \in {Initiated, Defaulted, Checked} => ~last.fault

C1_Witness ==
    /\ last.op \in Resets
    /\ PreSelf.disposition = Unchecked
    /\ last.fault

\* C2: destroying an instance takes the fatal path exactly when the instance
\* is Unchecked at destruction.
C2_DtorFaultsIffUnchecked ==
    last.op = "dtor" =>
        /\ last.fault <=> (PreSelf.disposition = Unchecked)
        /\ last.fault <=> terminated
        /\ ~last.fault => ~inst[Self].alive

C2_Witness ==
    /\ last.op = "dtor"
    /\ PreSelf.disposition = Unchecked
    /\ terminated

\* C3 as stated: once G has been written by reset(raw), assignment or
\* construction from a guarded value, a reset of G with no ok(), truthiness
\* test or release() of G in between takes the fatal path, and after ok() or
\* release() the next reset of G succeeds, whatever other calls come between.
C3_Original ==
    (last.op \in Resets /\ Self = G) =>
        /\ last.noted = Owed => last.fault
        /\ last.noted = Clear => ~last.fault

\* C3 amended: as C3, provided G has not been an operand of swap in between
\* (nor moved from, which releases it).
C3_ResetAfterWrite ==
    (last.op \in Resets /\ Self = G) =>
        /\ last.track = Owed => last.fault
        /\ last.track = Clear => ~last.fault

C3_Witness ==
    /\ following
    /\ last.op \in Resets /\ Self = G
    /\ last.track = Owed
    /\ last.fault
    /\ PreSelf.alive

\* C4: a permitted reset(raw) stores raw and leaves the instance Unchecked for
\* every raw, the success value included; a permitted reset() stores the
\* success value and leaves the instance Defaulted, so that it can be repeated.
C4_ResetEffect ==
    /\ (last.op = "reset_raw" /\ ~last.fault) =>
            /\ inst[Self].value = last.raw
            /\ inst[Self].disposition = Unchecked
            /\ Unsafe(inst[Self])
    /\ (last.op = "reset" /\ ~last.fault) =>
            /\ inst[Self].value = traits_initiate
            /\ inst[Self].disposition = Defaulted
            /\ ~reset(inst[Self]).fault
            /\ reset(inst[Self]).obj = inst[Self]

C4_Witness ==
    /\ last.op = "reset_raw" /\ ~last.fault
    /\ last.raw = traits_initiate
    /\ inst[Self].disposition = Unchecked

\* C5: ok() leaves the value unchanged, leaves the instance Checked whatever
\* it was before and returns traits::ok(value); the truthiness test returns
\* the negation, has the same effect, and the instance can be destroyed right
\* after it without fault.
C5_OkAndBool ==
    /\ last.op = "ok" =>
            /\ inst[Self].value = PreSelf.value
            /\ inst[Self].disposition = Checked
            /\ last.retBool = traits_ok(PreSelf.value)
    /\ last.op = "operator_bool" =>
            /\ inst[Self].value = PreSelf.value
            /\ inst[Self].disposition = Checked
            /\ last.retBool = ~traits_ok(PreSelf.value)
            /\ last.retBool = (PreSelf.value # traits_initiate)
            /\ ~dtor(inst[Self]).fault

C5_Witness ==
    /\ last.op = "operator_bool"
    /\ PreSelf.disposition = Unchecked
    /\ last.retBool

\* C6: release() never takes the fatal path, whatever the disposition it is
\* called in, and right after it the instance can be reset or destroyed.
C6_ReleaseNeverFaults ==
    last.op = "release" =>
        /\ ~last.fault
        /\ Safe(inst[Self])

C6_Witness ==
    /\ last.op = "release"
    /\ PreSelf.disposition = Unchecked
    /\ ~last.fault

\* C7: release() returns the value held right before the call and leaves the
\* instance cleared: get() is traits::initiate() and try_ok() is true.
C7_ReleaseResult ==
    last.op = "release" =>
        /\ last.retVal = PreSelf.value
        /\ get(inst[Self]) = traits_initiate
        /\ try_ok(inst[Self])

C7_Witness ==
    /\ last.op = "release"
    /\ PreSelf.value # traits_initiate
    /\ last.retVal = PreSelf.value

\* C8: a move (construction or assignment) from a into another instance b
\* leaves b with a's former value and Unchecked whatever a's disposition was,
\* takes no fatal path, and leaves a with the success value, safe to reset or
\* destroy.
C8_MoveEffect ==
    (last.op \in Moves /\ Self # Other) =>
        /\ ~last.fault
        /\ inst[Self].alive
        /\ inst[Self].value = PreOther.value
        /\ inst[Self].disposition = Unchecked
        /\ inst[Other].value = traits_initiate
        /\ Safe(inst[Other])

C8_Witness ==
    /\ last.op \in Moves /\ Self # Other
    /\ PreOther.disposition = Checked
    /\ PreOther.value # traits_initiate
    /\ inst[Self].disposition = Unchecked

\* C9: a copy (construction or assignment) from a into b leaves b with a's
\* value and Unchecked whatever a's disposition was, and leaves a, when it is
\* another instance, as it was; copying an Unchecked a leaves two instances
\* neither of which can be reset or destroyed before it is checked or released.
C9_CopyEffect ==
    last.op \in {"ctor_copy", "assign_copy"} =>
        /\ inst[Self].alive
        /\ inst[Self].value = PreOther.value
        /\ inst[Self].disposition = Unchecked
        /\ Self # Other => inst[Other] = PreOther
        /\ PreOther.disposition = Unchecked =>
                /\ Unsafe(inst[Self]) /\ Unsafe(inst[Other])
                /\ Safe(ok(inst[Self]).obj) /\ Safe(release(inst[Self]).obj)
                /\ Safe(ok(inst[Other]).obj) /\ Safe(release(inst[Other]).obj)

C9_Witness ==
    /\ last.op \in {"ctor_copy", "assign_copy"} /\ Self # Other
    /\ PreOther.disposition = Checked
    /\ PreOther.value # traits_initiate
    /\ inst[Self].disposition = Unchecked
    /\ inst[Other].disposition = Checked

\* C10: assignment from a guarded value, by copy or by move, never takes the
\* fatal path, also when the destination is Unchecked: the destination ends
\* Unchecked with the source's value.
C10_AssignNeverFaults ==
    last.op \in {"assign_copy", "assign_move"} =>
        /\ ~last.fault
        /\ inst[Self].value = PreOther.value
        /\ inst[Self].disposition = Unchecked

C10_Witness ==
    /\ last.op \in {"assign_copy", "assign_move"}
    /\ PreSelf.disposition = Unchecked
    /\ PreSelf.value # PreOther.value
    /\ inst[Self].value = PreOther.value

\* C11: get() and try_ok() are pure reads: they change neither a value nor a
\* disposition, so an Unchecked instance is still refused reset and
\* destruction after them; get() returns the stored value and try_ok()
\* returns traits::ok(value).
C11_PureReads ==
    /\ last.op \in {"get", "try_ok"} =>
            /\ inst = last.pre
            /\ ~last.fault
            /\ PreSelf.disposition = Unchecked => Unsafe(inst[Self])
    /\ last.op = "get" => last.retVal = PreSelf.value
    /\ last.op = "try_ok" => last.retBool = traits_ok(PreSelf.value)

C11_Witness ==
    /\ last.op = "get"
    /\ PreSelf.disposition = Unchecked
    /\ PreSelf.value # traits_initiate
    /\ last.retVal = PreSelf.value

Comparisons == {"operator_less", "operator_eq", "operator_ne"}

\* C12: comparing two guarded values with ==, != or < changes the disposition
\* of neither operand (nor anything else), so an Unchecked operand is still
\* refused reset and destruction after it; the result depends only on the two
\* stored values.
C12_ComparisonsPure ==
    /\ last.op \in Comparisons =>
            /\ inst = last.pre
            /\ ~last.fault
            /\ PreSelf.disposition = Unchecked => Unsafe(inst[Self])
            /\ PreOther.disposition = Unchecked => Unsafe(inst[Other])
    /\ last.op = "operator_less" => last.retBool = (PreSelf.value < PreOther.value)
    /\ last.op = "operator_eq" => last.retBool = (PreSelf.value = PreOther.value)
    /\ last.op = "operator_ne" => last.retBool = (PreSelf.value # PreOther.value)

C12_Witness ==
    /\ last.op = "operator_eq" /\ Self # Other
    /\ PreSelf.disposition = Unchecked
    /\ PreOther.disposition = Checked
    /\ PreSelf.value = PreOther.value
    /\ last.retBool

\* C13: for every error type E the header gives a usable error_traits<E>
\* (the primary template, std::error_condition, std::error_code),
\* ok(initiate()) is true.
C13_OkOfInitiate ==
    (probe.from = "initiate" /\ probe.tested) => probe.result

\* no assignment from a live instance into u takes the fatal path
Assignable(self) ==
    \A other \in Inst : inst[other].alive => ~assign_move(inst, self, other).fault

\* C14: an instance that was just default-constructed (Defaulted, success
\* value) or constructed from a raw value (Initiated, that value, error or
\* not) can be reset, reset(raw), assigned to or destroyed without fault.
C14_FreshIsSafe ==
    /\ last.op = "ctor_default" =>
            /\ inst[Self] = [alive |-> TRUE, value |-> traits_initiate,
                             disposition |-> Defaulted]
            /\ try_ok(inst[Self])
            /\ Safe(inst[Self]) /\ Assignable(Self)
    /\ last.op = "ctor_raw" =>
            /\ inst[Self] = [alive |-> TRUE, value |-> last.raw,
                             disposition |-> Initiated]
            /\ Safe(inst[Self]) /\ Assignable(Self)

C14_Witness ==
    /\ last.op = "ctor_raw"
    /\ last.raw # traits_initiate
    /\ inst[Self].disposition = Initiated

\* slot i holds an Unchecked instance now and did not before the last call
BecameUnchecked(i) ==
    /\ inst[i].alive /\ inst[i].disposition = Unchecked
    /\ ~(last.pre[i].alive /\ last.pre[i].disposition = Unchecked)

\* C15 as stated: an instance becomes Unchecked only through copy or move
\* construction, assignment from a guarded value, or reset(raw).
C15_Original ==
    \A i \in Inst : BecameUnchecked(i) => (last.op \in Writes /\ Self = i)

\* C15 amended: ... or through a swap with an instance that is Unchecked.
C15_OnlyWritesAndSwap ==
    \A i \in Inst : BecameUnchecked(i) =>
        \/ last.op \in Writes /\ Self = i
        \/ /\ last.op = "swap"
           /\ \/ Self = i /\ PreOther.disposition = Unchecked
              \/ Other = i /\ PreSelf.disposition = Unchecked

C15_Witness ==
    /\ BecameUnchecked(Self)
    /\ last.op = "reset_raw"
    /\ PreSelf.disposition = Checked

\* C16: a refused reset() or reset(raw), raised as a catchable fail_fast,
\* leaves the instance as it was, value and Unchecked disposition: a repeated
\* reset is refused again, and ok(), the truthiness test or release() make the
\* instance safe to reset or destroy.
C16_RefusedResetKeepsState ==
    (last.op \in Resets /\ last.fault) =>
        /\ inst = last.pre
        /\ ~terminated
        /\ inst[Self].disposition = Unchecked
        /\ Unsafe(inst[Self])
        /\ Safe(ok(inst[Self]).obj)
        /\ Safe(operator_bool(inst[Self]).obj)
        /\ Safe(release(inst[Self]).obj)

C16_Witness ==
    /\ last.op = "reset_raw" /\ last.fault
    /\ last.raw # PreSelf.value
    /\ inst[Self].value = PreSelf.value

\* C17: swap(a, b) exchanges the values and the dispositions of a and b and
\* never takes the fatal path; after swapping an Unchecked a with a Checked b,
\* a can be reset without fault and b cannot.
C17_SwapExchanges ==
    last.op = "swap" =>
        /\ ~last.fault
        /\ inst[Self] = PreOther
        /\ inst[Other] = PreSelf
        /\ \A i \in Inst \ {Self, Other} : inst[i] = last.pre[i]
        /\ (PreSelf.disposition = Unchecked /\ PreOther.disposition = Checked) =>
                Safe(inst[Self]) /\ Unsafe(inst[Other])

C17_Witness ==
    /\ last.op = "swap" /\ Self # Other
    /\ PreSelf.disposition = Unchecked /\ PreOther.disposition = Checked
    /\ PreSelf.value # PreOther.value
    /\ inst[Self].disposition = Checked

\* C18: after every completed call, an instance that is Defaulted holds
\* traits::initiate().
C18_DefaultedHoldsSuccess ==
    \A i \in Inst :
        (inst[i].alive /\ inst[i].disposition = Defaulted) =>
            inst[i].value = traits_initiate

C18_Witness ==
    /\ last.op = "reset" /\ ~last.fault
    /\ PreSelf.value # traits_initiate
    /\ inst[Self].disposition = Defaulted

\* C19: after every completed call the disposition of an instance is one of
\* Initiated, Defaulted, Checked, Unchecked: release() ends in Defaulted, and
\* Released, Invalid and End are never left behind.
C19_DispositionRange ==
    /\ \A i \in Inst :
            inst[i].alive =>
                inst[i].disposition \in {Initiated, Defaulted, Checked, Unchecked}
    /\ (last.op = "release" /\ ~last.fault) => inst[Self].disposition = Defaulted

C19_Witness ==
    /\ last.op = "release"
    /\ PreSelf.disposition = Checked
    /\ inst[Self].disposition = Defaulted

\* C20: g = std::move(g) never takes the fatal path, keeps g's value and
\* leaves g Unchecked, whatever g's value and disposition were.
C20_SelfMoveAssign ==
    (last.op = "assign_move" /\ Self = Other) =>
        /\ ~last.fault
        /\ inst[Self].value = PreSelf.value
        /\ inst[Self].disposition = Unchecked
        /\ \A i \in Inst \ {Self} : inst[i] = last.pre[i]

C20_Witness ==
    /\ last.op = "assign_move" /\ Self = Other
    /\ PreSelf.value # traits_initiate
    /\ PreSelf.disposition = Checked
    /\ inst[Self].disposition = Unchecked

====
